---- MODULE Spec2Model ----
(***************************************************************************)
(* Decoupled look-back scan state of rocPRIM (lookback_scan_state.hpp):   *)
(* the per-block prefix slots, their two storage layouts and the          *)
(* lookback_scan_prefix_op that walks back over the predecessors' slots.  *)
(* A launch is modelled as the interleaving of the loads and stores of    *)
(* its blocks; the lanes of one warp execute each load in lockstep.       *)
(***************************************************************************)
EXTENDS Integers, Sequences, FiniteSets, TLC

\* ---------------------------------------------------------------- flags
PREFIX_INVALID == 0 - 1
PREFIX_EMPTY == 0
PREFIX_PARTIAL == 1
PREFIX_COMPLETE == 2

FlagValues == {PREFIX_INVALID, PREFIX_EMPTY, PREFIX_PARTIAL, PREFIX_COMPLETE}

\* --------------------------------------------------------------- bounds
\* ::rocprim::warp_size(), the width of the look-back window (scaled down).
WarpSize == 2
\* The largest number_of_blocks of a launch with an arbitrary operator.
MaxBlocks == 4

\* unsigned int arithmetic wraps modulo UIntRange (2^30 stands for 2^32:
\* TLC's integers are 32 bits wide).
UIntRange == 1073741824

padding == WarpSize

Lanes == 0 .. (WarpSize - 1)

\* a + b and a - b on unsigned int
UAdd(a, b) == (a + b) % UIntRange
USub(a, b) == (a - b) % UIntRange

\* ------------------------------------------------------------ operators
\* The BinaryFunction scan_op_ of a launch: integer addition, or the
\* concatenation of sequences (associative, not commutative).
ScanOps == {"plus", "concat"}

\* The values an unwritten memory cell or an uninitialized local may hold.
Garbage(o) == IF o = "plus" THEN {7} ELSE {<<99>>, <<0>>}

\* The local reductions of the additive end-to-end example, block 0 first.
ExampleReductions == <<3, 0 - 1, 4, 0 - 1, 5>>

\* The launches: the additive example, and under concatenation every block
\* count up to MaxBlocks.
BlockCounts(o) == IF o = "plus" THEN {Len(ExampleReductions)} ELSE 1 .. MaxBlocks

\* The local reduction of block b: the example's under addition, the
\* generator <<b>> of the free monoid under concatenation (every assignment
\* of reductions under an associative operator is a homomorphic image of it).
ReductionOf(o, b) == IF o = "plus" THEN ExampleReductions[b + 1] ELSE <<b>>

VARIABLES
    layout,                    \* "combined": lookback_scan_state<T, true>, "split": <T, false>
    op,                        \* the scan_op_ of the launch
    number_of_blocks,
    reductions,                \* block -> its local reduction
    junk,                      \* what unwritten memory and uninitialized locals hold
    phase,                     \* "init": the initialization pass; "scan": the scan kernel
    inited,                    \* ids initialize_prefix was called with
    prefixes,                  \* combined layout: slot -> [flag, value], one word
    prefixes_flags,            \* split layout: slot -> flag
    prefixes_partial_values,   \* split layout: slot -> T
    prefixes_complete_values,  \* split layout: slot -> T
    pc,                        \* block -> position in operator()
    previous_block_id,         \* block -> lane -> unsigned int
    rounds,                    \* block -> calls of reduce_partial_prefixes made
    lane,                      \* block -> lane -> [pc, flag, value] inside get()
    prefix,                    \* block -> T, lane 0's prefix in get_prefix
    oob,                       \* a slot outside the buffer was accessed
    host,                      \* the call of a host function that is under way
    order                      \* one split slot under the device's memory ordering

vars == <<layout, op, number_of_blocks, reductions, junk, phase, inited,
          prefixes, prefixes_flags, prefixes_partial_values,
          prefixes_complete_values, pc, previous_block_id, rounds, lane,
          prefix, oob, host, order>>

config == <<layout, op, number_of_blocks, reductions, junk, host, order>>
memory == <<prefixes, prefixes_flags, prefixes_partial_values,
            prefixes_complete_values>>
locals == <<pc, previous_block_id, rounds, lane, prefix>>

Blocks == 0 .. (number_of_blocks - 1)
Slots == 0 .. (padding + number_of_blocks - 1)

scan_op_(a, b) == IF op = "plus" THEN a + b ELSE a \o b

\* The identity of scan_op_: the exclusive prefix the caller gives block 0.
Identity == IF op = "plus" THEN 0 ELSE << >>

\* The locals flag and block_prefix of a lane entering get(): not yet loaded.
FreshLane == [pc |-> "load", flag |-> PREFIX_EMPTY, value |-> junk]

\* No host function is being followed: the launch is.
NoCall == [call |-> "none"]

\* The launch is followed under sequential consistency: no slot is singled out.
NoRun == [run |-> "none"]

Init ==
    /\ layout \in {"combined", "split"}
    /\ op \in ScanOps
    /\ number_of_blocks \in BlockCounts(op)
    /\ reductions = [b \in Blocks |-> ReductionOf(op, b)]
    /\ junk \in Garbage(op)
    /\ phase = "init"
    /\ inited = {}
    \* create() binds the buffer as it is: every cell holds garbage
    /\ \E f \in FlagValues :
          /\ prefixes = [s \in Slots |-> [flag |-> f, value |-> junk]]
          /\ prefixes_flags = [s \in Slots |-> f]
    /\ prefixes_partial_values = [s \in Slots |-> junk]
    /\ prefixes_complete_values = [s \in Slots |-> junk]
    /\ pc = [b \in Blocks |-> IF b = 0 THEN "set_complete" ELSE "set_partial"]
    /\ previous_block_id = [b \in Blocks |-> [i \in Lanes |-> 0]]
    /\ rounds = [b \in Blocks |-> 0]
    /\ lane = [b \in Blocks |-> [i \in Lanes |-> FreshLane]]
    /\ prefix = [b \in Blocks |-> IF b = 0 THEN Identity ELSE junk]
    /\ oob = FALSE
    /\ host = NoCall
    /\ order = NoRun

\* ------------------------------------------------- initialization pass
Max(a, b) == IF a > b THEN a ELSE b

\* The ids of the initialization pass; the last one is beyond every range.
InitIds == 0 .. Max(padding, number_of_blocks)

\* The Invalid store tested against the whole buffer, not against the padding.
initialize_prefix_combined_all(block_id) ==
    LET p1 == IF block_id < number_of_blocks
              THEN [prefixes EXCEPT ![UAdd(padding, block_id)] =
                        [flag |-> PREFIX_EMPTY, value |-> junk]]
              ELSE prefixes
    IN  IF block_id < padding + number_of_blocks
        THEN [p1 EXCEPT ![block_id] = [flag |-> PREFIX_INVALID, value |-> junk]]
        ELSE p1

\* lookback_scan_state<T, true>::initialize_prefix: the word stored is the
\* uninitialized local `prefix` with its flag set.
initialize_prefix_combined(block_id) ==
    LET p1 == IF block_id < number_of_blocks
              THEN [prefixes EXCEPT ![UAdd(padding, block_id)] =
                        [flag |-> PREFIX_EMPTY, value |-> junk]]
              ELSE prefixes
    IN  IF block_id < padding
        THEN [p1 EXCEPT ![block_id] = [flag |-> PREFIX_INVALID, value |-> junk]]
        ELSE p1

\* The second test made an else-branch of the first.
initialize_prefix_split_else(block_id) ==
    IF block_id < number_of_blocks
    THEN [prefixes_flags EXCEPT ![UAdd(padding, block_id)] = PREFIX_EMPTY]
    ELSE IF block_id < padding
         THEN [prefixes_flags EXCEPT ![block_id] = PREFIX_INVALID]
         ELSE prefixes_flags

\* The padding test taken inclusive: id = padding stores Invalid too.
initialize_prefix_split_inclusive(block_id) ==
    LET f1 == IF block_id < number_of_blocks
              THEN [prefixes_flags EXCEPT ![UAdd(padding, block_id)] = PREFIX_EMPTY]
              ELSE prefixes_flags
    IN  IF block_id <= padding
        THEN [f1 EXCEPT ![block_id] = PREFIX_INVALID]
        ELSE f1

\* lookback_scan_state<T, false>::initialize_prefix
initialize_prefix_split(block_id) ==
    LET f1 == IF block_id < number_of_blocks
              THEN [prefixes_flags EXCEPT ![UAdd(padding, block_id)] = PREFIX_EMPTY]
              ELSE prefixes_flags
    IN  IF block_id < padding
        THEN [f1 EXCEPT ![block_id] = PREFIX_INVALID]
        ELSE f1

InitializePrefix(id) ==
    /\ phase = "init"
    /\ inited' = inited \cup {id}
    /\ IF layout = "combined"
       THEN /\ prefixes' = initialize_prefix_combined(id)
            /\ UNCHANGED prefixes_flags
       ELSE /\ prefixes_flags' = initialize_prefix_split(id)
            /\ UNCHANGED prefixes
    /\ UNCHANGED <<config, phase, prefixes_partial_values,
                   prefixes_complete_values, locals, oob>>

\* The scan kernel starts once the initialization pass has covered every id.
LaunchScan ==
    /\ phase = "init"
    /\ (0 .. (Max(padding, number_of_blocks) - 1)) \subseteq inited
    /\ phase' = "scan"
    /\ UNCHANGED <<config, inited, memory, locals, oob>>

\* ------------------------------------------------------ set_partial / set_complete
\* The store lands one slot below the block's own.
set_below(block_id, flag, value) ==
    [prefixes EXCEPT ![USub(UAdd(padding, block_id), 1)] = [flag |-> flag, value |-> value]]

\* The store forgets the padding offset.
set_unpadded(block_id, flag, value) ==
    [prefixes EXCEPT ![block_id] = [flag |-> flag, value |-> value]]

\* The store is two slots wide: it also overwrites the slot below.
set_wide(block_id, flag, value) ==
    [prefixes EXCEPT ![UAdd(padding, block_id)] = [flag |-> flag, value |-> value],
                     ![USub(UAdd(padding, block_id), 1)] = [flag |-> flag, value |-> value]]

\* lookback_scan_state<T, true>::set: flag and value in one store.
set(block_id, flag, value) ==
    [prefixes EXCEPT ![UAdd(padding, block_id)] = [flag |-> flag, value |-> value]]

\* Off by one: lane 0 starts from the block itself.
first_previous_block_id_own(block_id, lane_id) == USub(block_id, lane_id)

\* get_prefix, first statement: the predecessor each lane starts from.
first_previous_block_id(block_id, lane_id) == USub(USub(block_id, lane_id), 1)

\* The window moved by one block instead of by its width.
next_previous_block_id_single(p) == USub(p, 1)

\* get_prefix, loop body: one window further back.
next_previous_block_id(p) == USub(p, WarpSize)

EnterGetPrefix(b) ==
    /\ previous_block_id' = [previous_block_id EXCEPT ![b] =
                                [i \in Lanes |-> first_previous_block_id(b, i)]]
    /\ lane' = [lane EXCEPT ![b] = [i \in Lanes |-> FreshLane]]
    /\ pc' = [pc EXCEPT ![b] = "get"]

\* The look-back entered without the block's reduction published.
SetPartial_skipped(b) ==
    /\ phase = "scan"
    /\ pc[b] = "set_partial"
    /\ EnterGetPrefix(b)
    /\ UNCHANGED <<config, phase, inited, memory, rounds, prefix, oob>>

\* operator(): lane 0 publishes the block's reduction (combined: one store;
\* split: the store of the value).
SetPartial(b) ==
    /\ phase = "scan"
    /\ pc[b] = "set_partial"
    /\ IF layout = "combined"
       THEN /\ prefixes' = set(b, PREFIX_PARTIAL, reductions[b])
            /\ EnterGetPrefix(b)
            /\ UNCHANGED prefixes_partial_values
       ELSE /\ prefixes_partial_values' =
                   [prefixes_partial_values EXCEPT ![UAdd(padding, b)] = reductions[b]]
            /\ pc' = [pc EXCEPT ![b] = "set_partial_flag"]
            /\ UNCHANGED <<prefixes, previous_block_id, lane>>
    /\ UNCHANGED <<config, phase, inited, prefixes_flags,
                   prefixes_complete_values, rounds, prefix, oob>>

\* split set_partial after the fence: the store of the flag.
SetPartialFlag(b) ==
    /\ phase = "scan"
    /\ pc[b] = "set_partial_flag"
    /\ prefixes_flags' = [prefixes_flags EXCEPT ![UAdd(padding, b)] = PREFIX_PARTIAL]
    /\ EnterGetPrefix(b)
    /\ UNCHANGED <<config, phase, inited, prefixes, prefixes_partial_values,
                   prefixes_complete_values, rounds, prefix, oob>>

\* Operands exchanged: the block's reduction applied before its prefix.
complete_value_swapped(exclusive, reduction) == scan_op_(reduction, exclusive)

\* operator(): the inclusive total published by set_complete.
complete_value(exclusive, reduction) == scan_op_(exclusive, reduction)

\* What block b passes to set_complete: block 0 its reduction, directly.
CompleteOf(b) == IF b = 0 THEN reductions[b] ELSE complete_value(prefix[b], reductions[b])

SetComplete(b) ==
    /\ phase = "scan"
    /\ pc[b] = "set_complete"
    /\ IF layout = "combined"
       THEN /\ prefixes' = set(b, PREFIX_COMPLETE, CompleteOf(b))
            /\ pc' = [pc EXCEPT ![b] = "done"]
            /\ UNCHANGED prefixes_complete_values
       ELSE /\ prefixes_complete_values' =
                   [prefixes_complete_values EXCEPT ![UAdd(padding, b)] = CompleteOf(b)]
            /\ pc' = [pc EXCEPT ![b] = "set_complete_flag"]
            /\ UNCHANGED prefixes
    /\ UNCHANGED <<config, phase, inited, prefixes_flags, prefixes_partial_values,
                   previous_block_id, rounds, lane, prefix, oob>>

SetCompleteFlag(b) ==
    /\ phase = "scan"
    /\ pc[b] = "set_complete_flag"
    /\ prefixes_flags' = [prefixes_flags EXCEPT ![UAdd(padding, b)] = PREFIX_COMPLETE]
    /\ pc' = [pc EXCEPT ![b] = "done"]
    /\ UNCHANGED <<config, phase, inited, prefixes, prefixes_partial_values,
                   prefixes_complete_values, previous_block_id, rounds, lane,
                   prefix, oob>>

\* ------------------------------------------------------------------ get
\* The index taken in a wider type: a wrapped id is not wrapped back.
SlotOf_unwrapped(b, i) == padding + previous_block_id[b][i]

\* The slot lane i of block b polls: prefixes[padding + block_id].
SlotOf(b, i) == UAdd(padding, previous_block_id[b][i])

\* One value array for both flags.
get_value_single(flag, slot) == prefixes_complete_values[slot]

\* The two value arrays exchanged.
get_value_swapped(flag, slot) ==
    IF flag = PREFIX_PARTIAL
    THEN prefixes_complete_values[slot]
    ELSE prefixes_partial_values[slot]

\* split get(): the value array the loaded flag selects.
get_value(flag, slot) ==
    IF flag = PREFIX_PARTIAL
    THEN prefixes_partial_values[slot]
    ELSE prefixes_complete_values[slot]

\* The loop waits for Complete instead of for anything but Empty.
poll_again_until_complete(flags) == \E i \in Lanes : flags[i] # PREFIX_COMPLETE

\* The loop left on any flag but Invalid.
poll_again_on_invalid(flag) == flag = PREFIX_INVALID

\* warp_all in place of warp_any: the warp leaves when one lane is past Empty.
poll_again_if_all_empty(flags) == \A i \in Lanes : flags[i] = PREFIX_EMPTY

\* The polling loop degraded to a single load.
poll_again_never(flag) == FALSE

\* get(), loop condition, for the flags the lanes of the block have loaded.
\* combined: warp_any(prefix.flag == PREFIX_EMPTY).
poll_again_combined(flags) == \E i \in Lanes : flags[i] = PREFIX_EMPTY
\* split: flag == PREFIX_EMPTY, each lane for itself.
poll_again_split(flag) == flag = PREFIX_EMPTY

\* What a lane loading slot `slot` in get()'s loop holds afterwards.
\* combined: the whole word, flag and value. split: the flag; the lane
\* leaves the loop when it is not Empty.
get_load(slot) ==
    IF layout = "combined"
    THEN [pc |-> "ready", flag |-> prefixes[slot].flag, value |-> prefixes[slot].value]
    ELSE [pc |-> IF poll_again_split(prefixes_flags[slot]) THEN "load" ELSE "value",
          flag |-> prefixes_flags[slot], value |-> junk]

\* What the lanes of block b hold after one more load of get()'s loop, f
\* being the flag an access outside the buffer yields.
loaded(b, f) ==
    [i \in Lanes |->
        IF lane[b][i].pc # "load" THEN lane[b][i]
        ELSE IF SlotOf(b, i) \in Slots THEN get_load(SlotOf(b, i))
        ELSE [pc |-> "ready", flag |-> f, value |-> junk]]

\* The lanes of the warp that are inside get()'s loop execute its load in
\* lockstep. combined: when a lane got Empty the warp loops, every lane loads again.
\* A slot index outside the buffer is an out-of-range access: it yields any flag.
GetLoad(b) ==
    /\ phase = "scan"
    /\ pc[b] = "get"
    /\ \E i \in Lanes : lane[b][i].pc = "load"
    /\ \E f \in (IF \A i \in Lanes : SlotOf(b, i) \in Slots
                 THEN {PREFIX_EMPTY} ELSE FlagValues) :
          IF layout = "combined"
             /\ poll_again_combined([i \in Lanes |-> loaded(b, f)[i].flag])
          THEN UNCHANGED lane
          ELSE lane' = [lane EXCEPT ![b] = loaded(b, f)]
    /\ oob' = (oob \/ \E i \in Lanes : lane[b][i].pc = "load" /\ SlotOf(b, i) \notin Slots)
    /\ UNCHANGED <<config, phase, inited, memory, pc, previous_block_id,
                   rounds, prefix>>

\* split get(): every lane has left the loop; each loads the value its flag selects.
GetValue(b) ==
    /\ phase = "scan"
    /\ pc[b] = "get"
    /\ \A i \in Lanes : lane[b][i].pc # "load"
    /\ \E i \in Lanes : lane[b][i].pc = "value"
    /\ lane' = [lane EXCEPT ![b] = [i \in Lanes |->
                   IF lane[b][i].pc # "value" THEN lane[b][i]
                   ELSE [pc |-> "ready", flag |-> lane[b][i].flag,
                         value |-> get_value(lane[b][i].flag, SlotOf(b, i))]]]
    /\ UNCHANGED <<config, phase, inited, memory, pc, previous_block_id,
                   rounds, prefix, oob>>

\* ------------------------------------------------ reduce_partial_prefixes
\* headflag_scan_op_wrapper: t2 starts a new segment when its head flag is set.
headflag_scan_op(t1, t2) ==
    IF ~t2[2] THEN <<scan_op_(t1[1], t2[1]), t1[2] \/ t2[2]>> ELSE t2

\* reverse_binary_op_wrapper
reverse_headflag_scan_op(t1, t2) == headflag_scan_op(t2, t1)

\* warp_reduce_crosslane::reduce: what lane 0 holds, lanes i .. WarpSize-1 reduced.
RECURSIVE warp_reduce(_, _)
warp_reduce(vf, i) ==
    IF i = WarpSize - 1
    THEN vf[i]
    ELSE reverse_headflag_scan_op(vf[i], warp_reduce(vf, i + 1))

\* The segment boundary put on the wrong flag.
reduce_partial_prefixes_on_partial(obs) ==
    warp_reduce([i \in Lanes |-> <<obs[i].value, obs[i].flag = PREFIX_PARTIAL>>], 0)[1]

\* No segment boundary at all: every lane of the window is combined.
reduce_partial_prefixes_unsegmented(obs) ==
    warp_reduce([i \in Lanes |-> <<obs[i].value, FALSE>>], 0)[1]

\* reduce_partial_prefixes: partial_prefix of lane 0 from what the lanes got.
reduce_partial_prefixes(obs) ==
    warp_reduce([i \in Lanes |-> <<obs[i].value, obs[i].flag = PREFIX_COMPLETE>>], 0)[1]

\* Operands exchanged: the farther round applied after the nearer ones.
merge_rounds_swapped(partial_prefix, previous) == scan_op_(previous, partial_prefix)

\* get_prefix: prefix = scan_op_(partial_prefix, prefix)
merge_rounds(partial_prefix, previous) == scan_op_(partial_prefix, previous)

\* The loop degraded to a single round.
lookback_continues_never(obs) == FALSE

\* The loop also ends on a window that holds an Invalid slot.
lookback_continues_unless_invalid(obs) ==
    \A i \in Lanes : obs[i].flag \notin {PREFIX_COMPLETE, PREFIX_INVALID}

\* warp_any for warp_all: the loop goes on while some lane lacks Complete.
lookback_continues_while_any(obs) == \E i \in Lanes : obs[i].flag # PREFIX_COMPLETE

\* get_prefix, loop condition: warp_all(flag != PREFIX_COMPLETE)
lookback_continues(obs) == \A i \in Lanes : obs[i].flag # PREFIX_COMPLETE

\* get() has returned in every lane: the warp reduces the round, get_prefix
\* merges it and either walks one window back or leaves the loop.
ReducePartialPrefixes(b) ==
    /\ phase = "scan"
    /\ pc[b] = "get"
    /\ \A i \in Lanes : lane[b][i].pc = "ready"
    /\ LET partial_prefix == reduce_partial_prefixes(lane[b]) IN
       /\ prefix' = [prefix EXCEPT ![b] =
                        IF rounds[b] = 0 THEN partial_prefix
                        ELSE merge_rounds(partial_prefix, prefix[b])]
       /\ rounds' = [rounds EXCEPT ![b] = rounds[b] + 1]
       /\ IF lookback_continues(lane[b])
          THEN /\ previous_block_id' = [previous_block_id EXCEPT ![b] =
                     [i \in Lanes |-> next_previous_block_id(previous_block_id[b][i])]]
               /\ lane' = [lane EXCEPT ![b] = [i \in Lanes |-> FreshLane]]
               /\ UNCHANGED pc
          ELSE /\ pc' = [pc EXCEPT ![b] = "set_complete"]
               /\ UNCHANGED <<previous_block_id, lane>>
    /\ UNCHANGED <<config, phase, inited, memory, oob>>

\* ------------------------------------------------------------ behaviours
Next ==
    \/ \E id \in InitIds : InitializePrefix(id)
    \/ LaunchScan
    \/ \E b \in Blocks \ {0} : SetPartial(b)
    \/ \E b \in Blocks \ {0} : SetPartialFlag(b)
    \/ \E b \in Blocks \ {0} : GetLoad(b)
    \/ \E b \in Blocks \ {0} : GetValue(b)
    \/ \E b \in Blocks \ {0} : ReducePartialPrefixes(b)
    \/ \E b \in Blocks : SetComplete(b)
    \/ \E b \in Blocks : SetCompleteFlag(b)

Spec == Init /\ [][Next]_vars

\* One step of block b, whichever it is.
BlockStep(b) ==
    /\ b \in Blocks
    /\ \/ SetPartial(b)
       \/ SetPartialFlag(b)
       \/ GetLoad(b)
       \/ GetValue(b)
       \/ ReducePartialPrefixes(b)
       \/ SetComplete(b)
       \/ SetCompleteFlag(b)

\* The block ids of the largest launch.
AllBlockIds == 0 .. (Max(MaxBlocks, Len(ExampleReductions)) - 1)

\* The launches followed for progress: which loads and stores a block makes
\* depends on the flags alone, so one operator and one content of the
\* unwritten memory stand for all.
FairInit == Init /\ op = "concat" /\ junk = <<99>>

\* Every block of the launch is resident and keeps being scheduled, and the
\* initialization pass runs to its end.
FairSpec ==
    /\ FairInit
    /\ [][Next]_vars
    /\ WF_vars((\E id \in InitIds : InitializePrefix(id)) \/ LaunchScan)
    /\ \A b \in AllBlockIds : WF_vars(BlockStep(b))

\* ------------------------------------------------- misuse: block 0 looks back
\* A launch whose block 0 invokes operator() like every other block, instead
\* of publishing its reduction as Complete directly.
StrayInit ==
    /\ layout \in {"combined", "split"}
    /\ op = "concat"
    /\ number_of_blocks \in BlockCounts(op)
    /\ reductions = [b \in Blocks |-> ReductionOf(op, b)]
    /\ junk = <<99>>
    /\ phase = "init"
    /\ inited = {}
    /\ \E f \in FlagValues :
          /\ prefixes = [s \in Slots |-> [flag |-> f, value |-> junk]]
          /\ prefixes_flags = [s \in Slots |-> f]
    /\ prefixes_partial_values = [s \in Slots |-> junk]
    /\ prefixes_complete_values = [s \in Slots |-> junk]
    /\ pc = [b \in Blocks |-> "set_partial"]
    /\ previous_block_id = [b \in Blocks |-> [i \in Lanes |-> 0]]
    /\ rounds = [b \in Blocks |-> 0]
    /\ lane = [b \in Blocks |-> [i \in Lanes |-> FreshLane]]
    /\ prefix = [b \in Blocks |-> junk]
    /\ oob = FALSE
    /\ host = NoCall
    /\ order = NoRun

\* The launch is followed up to its first access outside the buffer: what
\* the program does after it is undefined.
StrayNext ==
    \/ \E id \in InitIds : InitializePrefix(id)
    \/ LaunchScan
    \/ \E b \in Blocks : ~oob /\ BlockStep(b)

StraySpec == StrayInit /\ [][StrayNext]_vars

\* ------------------------------------- misuse: incomplete initialization
\* The scan kernel starts whatever the initialization pass has covered: the
\* slots of the ids it skipped hold what the buffer held before.
LaunchUninitialized ==
    /\ phase = "init"
    /\ phase' = "scan"
    /\ UNCHANGED <<config, inited, memory, locals, oob>>

\* The buffer of these launches was zeroed when it was allocated: a slot the
\* initialization skips reads as PREFIX_EMPTY.
SkipInit ==
    /\ FairInit
    /\ \A s \in Slots : prefixes[s].flag = PREFIX_EMPTY /\ prefixes_flags[s] = PREFIX_EMPTY

\* As StrayNext, the launch is followed up to its first access outside
\* the buffer.
SkipNext ==
    \/ \E id \in InitIds : InitializePrefix(id)
    \/ LaunchUninitialized
    \/ \E b \in Blocks : ~oob /\ BlockStep(b)

\* Every block is resident and keeps being scheduled.
SkipSpec ==
    /\ SkipInit
    /\ [][SkipNext]_vars
    /\ WF_vars((\E id \in InitIds : InitializePrefix(id)) \/ LaunchUninitialized)
    /\ \A b \in AllBlockIds : WF_vars(~oob /\ BlockStep(b))

\* ------------------------------------------ one round, any observation
\* The values a lane may have got from get(), whatever the launch.
ObservedValues(o) == IF o = "plus" THEN {1, 2, 4} ELSE {<<0>>, <<1>>, <<2>>}

\* The flags get() returns: every one but Empty.
ObservedFlags == FlagValues \ {PREFIX_EMPTY}

\* Block 1 of a launch of two is in the first round of get_prefix, get()
\* has returned in every lane, with any flag and any value each.
WarpInit ==
    /\ layout \in {"combined", "split"}
    /\ op \in ScanOps
    /\ number_of_blocks = 2
    /\ reductions = [b \in Blocks |-> ReductionOf(op, b)]
    /\ junk \in Garbage(op)
    /\ phase = "scan"
    /\ inited = 0 .. (Max(padding, number_of_blocks) - 1)
    /\ prefixes = [s \in Slots |-> [flag |-> PREFIX_EMPTY, value |-> junk]]
    /\ prefixes_flags = [s \in Slots |-> PREFIX_EMPTY]
    /\ prefixes_partial_values = [s \in Slots |-> junk]
    /\ prefixes_complete_values = [s \in Slots |-> junk]
    /\ pc = [b \in Blocks |-> IF b = 0 THEN "set_complete" ELSE "get"]
    /\ previous_block_id = [b \in Blocks |-> [i \in Lanes |-> first_previous_block_id(b, i)]]
    /\ rounds = [b \in Blocks |-> 0]
    /\ \E obs \in [Lanes -> [pc : {"ready"}, flag : ObservedFlags,
                              value : ObservedValues(op)]] :
          lane = [b \in Blocks |-> IF b = 0 THEN [i \in Lanes |-> FreshLane] ELSE obs]
    /\ prefix = [b \in Blocks |-> IF b = 0 THEN Identity ELSE junk]
    /\ oob = FALSE
    /\ host = NoCall
    /\ order = NoRun

\* The round is reduced; what the block does next is not followed.
WarpNext == \E b \in Blocks \ {0} : rounds[b] = 0 /\ ReducePartialPrefixes(b)

WarpSpec == WarpInit /\ [][WarpNext]_vars

\* ------------------------------------------------------ host functions
\* Everything of the device side: no host function touches it.
device == <<layout, op, number_of_blocks, reductions, junk, phase, inited,
            memory, locals, oob, order>>

\* No launch is under way while a host function is followed.
DeviceIdle ==
    /\ layout = "combined"
    /\ op = "plus"
    /\ number_of_blocks = 0
    /\ reductions = [b \in Blocks |-> 0]
    /\ junk = 0
    /\ phase = "host"
    /\ inited = {}
    /\ prefixes = [s \in Slots |-> [flag |-> PREFIX_EMPTY, value |-> junk]]
    /\ prefixes_flags = [s \in Slots |-> PREFIX_EMPTY]
    /\ prefixes_partial_values = [s \in Slots |-> junk]
    /\ prefixes_complete_values = [s \in Slots |-> junk]
    /\ pc = [b \in Blocks |-> "done"]
    /\ previous_block_id = [b \in Blocks |-> [i \in Lanes |-> 0]]
    /\ rounds = [b \in Blocks |-> 0]
    /\ lane = [b \in Blocks |-> [i \in Lanes |-> FreshLane]]
    /\ prefix = [b \in Blocks |-> junk]
    /\ oob = FALSE

\* The largest number_of_blocks a buffer is sized for, short of wrapping.
MaxStorageBlocks == 5

\* number_of_blocks is an unsigned int: the small counts, and the largest
\* ones, for which padding + number_of_blocks wraps.
StorageBlockCounts ==
    (0 .. MaxStorageBlocks) \cup {UIntRange - padding, UIntRange - 1}

\* sizeof(T): of the arithmetic types, and of other payload types.
ArithmeticSizes == {1, 2, 4, 8, 16}
StructSizes == {1, 3, 12, 24}

\* The alignment align_size rounds up to.
Alignments == {1, 8, 256}

\* sizeof(flag_type_) of lookback_scan_state<T, true>
sizeof_flag_type_(sizeof_T) ==
    IF sizeof_T = 8 THEN 8
    ELSE IF sizeof_T = 4 THEN 4
    ELSE IF sizeof_T = 2 THEN 2
    ELSE 1

\* sizeof(prefix_underlying_type): a vector of two flag_type_
sizeof_prefix_underlying_type(sizeof_T) == 2 * sizeof_flag_type_(sizeof_T)

\* sizeof(flag_type) of lookback_scan_state<T, false>: char
sizeof_flag_type == 1

\* ::rocprim::detail::align_size: size rounded up to a multiple of alignment.
align_size(size, alignment) == ((size + alignment - 1) \div alignment) * alignment

\* lookback_scan_state<T, true>::get_storage_size
get_storage_size_combined(sizeof_T, n_blocks) ==
    sizeof_prefix_underlying_type(sizeof_T) * UAdd(padding, n_blocks)

\* One value array is counted, not two.
get_storage_size_split_single(sizeof_T, n_blocks, alignment) ==
    LET n == UAdd(padding, n_blocks)
    IN  align_size(n * sizeof_flag_type, alignment) + align_size(n * sizeof_T, alignment)

\* lookback_scan_state<T, false>::get_storage_size
get_storage_size_split(sizeof_T, n_blocks, alignment) ==
    LET n == UAdd(padding, n_blocks)
    IN  align_size(n * sizeof_flag_type, alignment) + 2 * align_size(n * sizeof_T, alignment)

\* lookback_scan_state<T, true>::create: the offset of prefixes in temp_storage.
create_combined(sizeof_T, n_blocks) == [prefixes |-> 0]

\* lookback_scan_state<T, false>::create: the offsets of the three arrays.
create_split(sizeof_T, n_blocks, alignment) ==
    LET n == UAdd(padding, n_blocks)
        ptr1 == align_size(n * sizeof_flag_type, alignment)
        ptr2 == ptr1 + align_size(n * sizeof_T, alignment)
    IN  [prefixes_flags |-> 0,
         prefixes_partial_values |-> ptr1,
         prefixes_complete_values |-> ptr2]

\* The host is about to size and bind the scan state of a launch: the
\* combined layout for an arithmetic T, the split one for any other.
ScanStateCalls ==
    {c \in [call : {"scan_state"}, stage : {"query"}, is_arithmetic : BOOLEAN,
            sizeof_T : ArithmeticSizes \cup StructSizes, alignment : Alignments,
            number_of_blocks : StorageBlockCounts, storage_size : {0},
            at : {<< >>}] :
        c.sizeof_T \in (IF c.is_arithmetic THEN ArithmeticSizes ELSE StructSizes)}

\* First call of the two-phase protocol: the size of the buffer.
GetStorageSize ==
    /\ host.call = "scan_state"
    /\ host.stage = "query"
    /\ host' = [host EXCEPT
          !.stage = "sized",
          !.storage_size =
              IF host.is_arithmetic
              THEN get_storage_size_combined(host.sizeof_T, host.number_of_blocks)
              ELSE get_storage_size_split(host.sizeof_T, host.number_of_blocks,
                                          host.alignment)]
    /\ UNCHANGED device

\* The buffer of that size is allocated; create binds the arrays to it.
Create ==
    /\ host.call = "scan_state"
    /\ host.stage = "sized"
    /\ host' = [host EXCEPT
          !.stage = "created",
          !.at = IF host.is_arithmetic
                 THEN create_combined(host.sizeof_T, host.number_of_blocks)
                 ELSE create_split(host.sizeof_T, host.number_of_blocks,
                                   host.alignment)]
    /\ UNCHANGED device

\* a * b on unsigned int
UMul(a, b) == (a * b) % UIntRange

\* segmented_reduce_impl: block_size
segmented_reduce_block_size == 256

\* The largest number of segments, short of the ones whose grid wraps.
MaxSegments == 3

\* segments is an unsigned int: the small counts, and the first ones for
\* which segments * block_size wraps.
SegmentCounts ==
    (0 .. MaxSegments) \cup {UIntRange \div segmented_reduce_block_size,
                             UIntRange \div segmented_reduce_block_size + 1}

\* What storage_size holds before the call.
StorageSizesBefore == {0, 4, 100}

\* storage_size_before keeps what storage_size held when the call was made.
SegmentedReduceCalls ==
    {c \in [call : {"segmented_reduce"}, stage : {"called"},
            temporary_storage : {"nullptr", "buffer"},
            storage_size_before : StorageSizesBefore,
            storage_size : StorageSizesBefore,
            segments : SegmentCounts, launched : {0}, written : {{}}] :
        c.storage_size = c.storage_size_before}

\* segmented_reduce_impl: if(temporary_storage == nullptr) { storage_size = 4; return; }
segmented_reduce_sizes(temporary_storage) == temporary_storage = "nullptr"

\* The tiles of hc::tiled_extent<1>(segments * block_size, block_size).
segmented_reduce_tiles(segments) ==
    UMul(segments, segmented_reduce_block_size) \div segmented_reduce_block_size

\* segmented_reduce_impl; each block of the launch reduces the segment of
\* its id and writes output[id].
SegmentedReduce ==
    /\ host.call = "segmented_reduce"
    /\ host.stage = "called"
    /\ host' =
          LET sized == segmented_reduce_sizes(host.temporary_storage)
              tiles == IF sized THEN 0 ELSE segmented_reduce_tiles(host.segments)
          IN  [host EXCEPT
                 !.stage = "returned",
                 !.storage_size = IF sized THEN 4 ELSE host.storage_size,
                 !.launched = tiles,
                 !.written = 0 .. (tiles - 1)]
    /\ UNCHANGED device

\* transform: block_size, items_per_thread, items_per_block
transform_block_size == 256
transform_items_per_thread == 4
transform_items_per_block == transform_block_size * transform_items_per_thread

\* The largest number of full blocks of items a transform is given.
MaxTransformBlocks == 2

\* size: nothing, one item, and one item less than, exactly and one more
\* than a number of full blocks.
TransformSizes ==
    {0, 1} \cup {k * transform_items_per_block + d :
                    k \in 1 .. MaxTransformBlocks, d \in {0 - 1, 0, 1}}

\* Where the counting iterator of the input starts.
CountingStarts == {0, 1, 200}

\* input[i] of a counting_iterator that starts at first
counting_iterator(first, i) == first + i

\* The transform_op of the example and of the test.
transform_op(a) == a + 5

TransformCalls ==
    [call : {"transform"}, stage : {"called"}, size : TransformSizes,
     first : CountingStarts, launched : {0}, output : {<< >>}]

\* The division rounds down.
transform_number_of_blocks_floor(size) == size \div transform_items_per_block

\* transform: number_of_blocks
transform_number_of_blocks(size) ==
    (size + transform_items_per_block - 1) \div transform_items_per_block

\* detail::transform_kernel_impl of the launched blocks: block k handles the
\* items k * items_per_block .. (k + 1) * items_per_block - 1 below size;
\* an item no block handles keeps what output held.
transform_kernel(first, size, blocks) ==
    [i \in 0 .. (size - 1) |->
        IF i \div transform_items_per_block < blocks
        THEN transform_op(counting_iterator(first, i))
        ELSE "unwritten"]

\* transform, up to the end of the kernel.
Transform ==
    /\ host.call = "transform"
    /\ host.stage = "called"
    /\ host' =
          LET number_of_blocks_ == transform_number_of_blocks(host.size)
          IN  [host EXCEPT
                 !.stage = "returned",
                 !.launched = number_of_blocks_,
                 !.output = transform_kernel(host.first, host.size, number_of_blocks_)]
    /\ UNCHANGED device

HostInit ==
    /\ DeviceIdle
    /\ order = NoRun
    /\ host \in ScanStateCalls \cup SegmentedReduceCalls \cup TransformCalls

HostNext ==
    \/ GetStorageSize
    \/ Create
    \/ SegmentedReduce
    \/ Transform

HostSpec == HostInit /\ [][HostNext]_vars

\* ------------------------------------------ memory ordering, split layout
\* One slot of the split layout, its owner and one lane reading it, followed
\* store by store and load by load. The device keeps two accesses of a thread
\* to different addresses in program order only across a fence: a store
\* becomes visible some time after it was issued, and a load may be satisfied
\* before an earlier load of the same thread.

\* Everything the launch and the host functions are followed with.
launch == <<layout, op, number_of_blocks, reductions, junk, phase, inited,
            memory, locals, oob, host>>

\* set_partial without its fence.
set_partial_ops_unfenced == <<"store_partial_value", "store_flag_partial">>

\* lookback_scan_state<T, false>::set_partial: its memory operations, in
\* program order.
set_partial_ops == <<"store_partial_value", "fence", "store_flag_partial">>

\* lookback_scan_state<T, false>::set_complete
set_complete_ops == <<"store_complete_value", "fence", "store_flag_complete">>

\* operator() of the slot's owner: set_partial, and after the look-back
\* (which does not touch the owner's slot) set_complete.
owner_ops == set_partial_ops \o set_complete_ops

\* lookback_scan_state<T, false>::get: the body of the polling loop, then
\* the load that follows the loop.
get_loop_ops == <<"fence", "load_flag">>
get_ops == get_loop_ops \o <<"load_value">>

\* The owner is block 1 of the additive example.
OwnerReduction == ExampleReductions[2]
OwnerTotal == ExampleReductions[1] + ExampleReductions[2]

\* The slot after the initialization pass, nothing issued yet, and the
\* lane entering get().
OrderInit ==
    /\ DeviceIdle
    /\ host = NoCall
    /\ order = [run |-> "split_slot",
                issued |-> 0,
                pending |-> {},
                flag |-> PREFIX_EMPTY,
                partial_value |-> junk,
                complete_value |-> junk,
                reader |-> [at |-> 1, last |-> "none", flag |-> PREFIX_EMPTY,
                            value |-> junk,
                            ahead |-> [taken |-> FALSE, partial_value |-> junk,
                                       complete_value |-> junk]]]

\* The owner issues its next operation. A store is issued and becomes
\* visible later; the fence completes once every store issued before it is
\* visible.
OwnerIssue ==
    /\ order.run = "split_slot"
    /\ order.issued < Len(owner_ops)
    /\ LET o == owner_ops[order.issued + 1] IN
          IF o = "fence"
          THEN /\ order.pending = {}
               /\ order' = [order EXCEPT !.issued = @ + 1]
          ELSE order' = [order EXCEPT !.issued = @ + 1, !.pending = @ \cup {o}]
    /\ UNCHANGED launch

\* The slot once store o has reached memory.
stored(o) ==
    CASE o = "store_partial_value" -> [order EXCEPT !.partial_value = OwnerReduction]
      [] o = "store_flag_partial" -> [order EXCEPT !.flag = PREFIX_PARTIAL]
      [] o = "store_complete_value" -> [order EXCEPT !.complete_value = OwnerTotal]
      [] o = "store_flag_complete" -> [order EXCEPT !.flag = PREFIX_COMPLETE]

\* A store issued earlier becomes visible: of the stores no fence separates,
\* any may be the first.
StoreVisible(o) ==
    /\ order.run = "split_slot"
    /\ o \in order.pending
    /\ order' = [stored(o) EXCEPT !.pending = @ \ {o}]
    /\ UNCHANGED launch

\* get(), loop body: memory_fence_system(). Loads issued after it are
\* satisfied after it.
ReaderFence ==
    /\ order.run = "split_slot"
    /\ order.reader.at <= Len(get_ops)
    /\ get_ops[order.reader.at] = "fence"
    /\ order' = [order EXCEPT !.reader.at = @ + 1,
                              !.reader.last = "fence",
                              !.reader.ahead.taken = FALSE]
    /\ UNCHANGED launch

\* The load of the value is satisfied ahead of the load of the flag that
\* precedes it in program order: no fence stands between the two.
ReaderLoadAhead ==
    /\ order.run = "split_slot"
    /\ order.reader.at < Len(get_ops)
    /\ get_ops[order.reader.at] = "load_flag"
    /\ get_ops[order.reader.at + 1] = "load_value"
    /\ ~order.reader.ahead.taken
    /\ order' = [order EXCEPT !.reader.ahead =
                    [taken |-> TRUE, partial_value |-> order.partial_value,
                     complete_value |-> order.complete_value]]
    /\ UNCHANGED launch

\* get(), loop body: flag = load_volatile(&prefixes_flags[...]); the loop
\* repeats while the flag is Empty.
ReaderLoadFlag ==
    /\ order.run = "split_slot"
    /\ order.reader.at <= Len(get_ops)
    /\ get_ops[order.reader.at] = "load_flag"
    /\ order' = [order EXCEPT
          !.reader.flag = order.flag,
          !.reader.last = "load_flag",
          !.reader.at = IF poll_again_split(order.flag)
                        THEN @ + 1 - Len(get_loop_ops) ELSE @ + 1]
    /\ UNCHANGED launch

\* get(), after the loop: the value array the flag selects, as the load
\* was satisfied.
ReaderLoadValue ==
    /\ order.run = "split_slot"
    /\ order.reader.at <= Len(get_ops)
    /\ get_ops[order.reader.at] = "load_value"
    /\ LET from == IF order.reader.ahead.taken THEN order.reader.ahead ELSE order
       IN  order' = [order EXCEPT
              !.reader.value = IF order.reader.flag = PREFIX_PARTIAL
                               THEN from.partial_value ELSE from.complete_value,
              !.reader.last = "load_value",
              !.reader.at = @ + 1]
    /\ UNCHANGED launch

OrderNext ==
    \/ OwnerIssue
    \/ \E o \in order.pending : StoreVisible(o)
    \/ ReaderFence
    \/ ReaderLoadAhead
    \/ ReaderLoadFlag
    \/ ReaderLoadValue

OrderSpec == OrderInit /\ [][OrderNext]_vars

\* ------------------------------------------------------------ reference
\* Flag and values of a slot, whichever the layout.
FlagAt(s) == IF layout = "combined" THEN prefixes[s].flag ELSE prefixes_flags[s]
PartialValueAt(s) ==
    IF layout = "combined" THEN prefixes[s].value ELSE prefixes_partial_values[s]
CompleteValueAt(s) ==
    IF layout = "combined" THEN prefixes[s].value ELSE prefixes_complete_values[s]

\* Sequential left-to-right scan of the reductions: r_0 (+) ... (+) r_b.
RECURSIVE InclusiveScan(_)
InclusiveScan(b) ==
    IF b = 0 THEN reductions[0]
    ELSE IF op = "plus" THEN InclusiveScan(b - 1) + reductions[b]
    ELSE InclusiveScan(b - 1) \o reductions[b]

\* r_0 (+) ... (+) r_{b-1}, for b >= 1.
ExclusiveScan(b) == InclusiveScan(b - 1)

\* operator() of block b has returned.
Returned(b) == pc[b] = "done"

\* get() has returned in every lane of block b: the values are about to be reduced.
GetReturned(b) ==
    /\ pc[b] = "get"
    /\ \A i \in Lanes : lane[b][i].pc = "ready"

\* ---------------------------------------------------------------- claims
\* C1: in every launch and under every interleaving, the value operator()
\* returns in lane 0 of block b >= 1 is r_0 (+) ... (+) r_{b-1}, combined
\* left to right.
C1_ExclusivePrefix ==
    \A b \in Blocks \ {0} : Returned(b) => prefix[b] = ExclusiveScan(b)

\* Every block of a launch of the largest size has returned, the last one
\* after more than one round of look-back.
C1_Witness ==
    /\ op = "concat"
    /\ number_of_blocks = MaxBlocks
    /\ \A b \in Blocks : Returned(b)
    /\ rounds[number_of_blocks - 1] > 1

\* C2: once operator() of block b > 0 has returned, its slot holds
\* PREFIX_COMPLETE with the value r_0 (+) ... (+) r_b, in every later state.
C2_CompletePublished ==
    \A b \in Blocks \ {0} :
        Returned(b) =>
            /\ FlagAt(padding + b) = PREFIX_COMPLETE
            /\ CompleteValueAt(padding + b) = InclusiveScan(b)
            /\ CompleteValueAt(padding + b) = scan_op_(prefix[b], reductions[b])

\* A block has returned and published while a later block is still looking back.
C2_Witness ==
    \E b \in Blocks \ {0} : \E c \in Blocks :
        /\ c > b
        /\ Returned(b)
        /\ pc[c] = "get"
        /\ FlagAt(padding + b) = PREFIX_COMPLETE

\* The prefix s lists consecutive block ids in ascending order, the last one b - 1.
AscendingRunBefore(s, b) ==
    /\ Len(s) >= 1
    /\ Len(s) <= b
    /\ \A k \in 1 .. Len(s) : s[k] = b - 1 - Len(s) + k

\* C3: with the non-commutative operator, after every further round of the
\* look-back the merged prefix lists the blocks seen so far in strictly
\* ascending order up to b - 1, and the returned one lists 0 .. b-1.
C3_RoundsMergeInOrder ==
    op = "concat" =>
        \A b \in Blocks \ {0} :
            rounds[b] > 1 =>
                /\ AscendingRunBefore(prefix[b], b)
                /\ Len(prefix[b]) > WarpSize
                /\ Returned(b) => Len(prefix[b]) = b

\* A block beyond the first window returned after a look-back of several rounds.
C3_Witness ==
    /\ op = "concat"
    /\ number_of_blocks > WarpSize
    /\ \E b \in Blocks : b > WarpSize /\ rounds[b] > 1 /\ Returned(b)

\* The exclusive prefixes and the complete values of the additive example.
ExampleExclusive == <<0, 3, 2, 6, 5>>
ExampleComplete == <<3, 2, 6, 5, 10>>

\* C4: with addition and the local reductions [3, -1, 4, -1, 5], under every
\* interleaving the exclusive prefixes are [0, 3, 2, 6, 5] and the complete
\* values stored in the five real slots are [3, 2, 6, 5, 10].
C4_AdditiveExample ==
    (op = "plus" /\ reductions = [b \in 0 .. 4 |-> ExampleReductions[b + 1]]) =>
        \A b \in Blocks :
            Returned(b) =>
                /\ prefix[b] = ExampleExclusive[b + 1]
                /\ FlagAt(padding + b) = PREFIX_COMPLETE
                /\ CompleteValueAt(padding + b) = ExampleComplete[b + 1]

\* The five blocks of the example have returned.
C4_Witness ==
    /\ op = "plus"
    /\ number_of_blocks = 5
    /\ \A b \in Blocks : Returned(b)
    /\ [b \in Blocks |-> CompleteValueAt(padding + b)] = [b \in 0 .. 4 |-> ExampleComplete[b + 1]]

FlagStep(f, g) ==
    IF f = PREFIX_INVALID THEN g = PREFIX_INVALID
    ELSE g # PREFIX_INVALID /\ g >= f

\* C6: during the scan no slot's flag goes back (Complete to Partial or
\* Empty, Partial to Empty), and no slot becomes Invalid or leaves Invalid.
C6_FlagsMonotonic ==
    [][phase = "scan" => \A s \in Slots : FlagStep(FlagAt(s), FlagAt(s)')]_vars

\* Every real slot of a split launch of the largest size went up to Complete.
C6_Witness ==
    /\ layout = "split"
    /\ phase = "scan"
    /\ number_of_blocks = MaxBlocks
    /\ \A b \in Blocks : FlagAt(padding + b) = PREFIX_COMPLETE

\* C9: for 0 < b < warp_size the walk reads only slots of the buffer, real
\* predecessors below b or padding slots, ends with its first round, and
\* returns the sequential scan of r_0 .. r_{b-1}: no padding value enters it.
C9_PaddingBoundary ==
    \A b \in Blocks \ {0} :
        b < WarpSize =>
            /\ ~oob
            /\ pc[b] = "get" =>
                  \A i \in Lanes :
                      /\ SlotOf(b, i) \in Slots
                      /\ SlotOf(b, i) >= padding => SlotOf(b, i) - padding < b
            /\ rounds[b] <= 1
            /\ pc[b] \in {"set_complete", "set_complete_flag", "done"} =>
                  /\ rounds[b] = 1
                  /\ prefix[b] = ExclusiveScan(b)

\* A block below warp_size returned; its farthest lane had loaded a padding
\* slot, Invalid with an unwritten value.
C9_Witness ==
    \E b \in Blocks \ {0} :
        /\ b < WarpSize
        /\ Returned(b)
        /\ SlotOf(b, WarpSize - 1) < padding
        /\ lane[b][WarpSize - 1].flag = PREFIX_INVALID
        /\ lane[b][WarpSize - 1].value = junk

\* C10: during the scan every padding slot is Invalid and holds what the
\* initialization left there: no store of the scan lands below `padding`.
C10_PaddingStaysInvalid ==
    phase = "scan" =>
        \A s \in 0 .. (padding - 1) :
            /\ FlagAt(s) = PREFIX_INVALID
            /\ PartialValueAt(s) = junk
            /\ CompleteValueAt(s) = junk

\* A combined launch is over: every block stored twice, the padding is intact.
C10_Witness ==
    /\ layout = "combined"
    /\ phase = "scan"
    /\ number_of_blocks >= 2
    /\ \A b \in Blocks : Returned(b)
    /\ \A s \in 0 .. (padding - 1) : prefixes[s].flag = PREFIX_INVALID

\* C7: when every block is scheduled fairly, once the slots are initialized
\* and the scan runs, every block leaves its polling and look-back loops,
\* publishes PREFIX_COMPLETE and returns.
C7_FairTermination ==
    (phase = "scan") ~>
        (\A b \in Blocks : Returned(b) /\ FlagAt(padding + b) = PREFIX_COMPLETE)

\* The last block of a launch is polling an Empty slot of its window while
\* block 0 has not published yet.
C7_Witness ==
    /\ phase = "scan"
    /\ number_of_blocks > WarpSize
    /\ pc[0] = "set_complete"
    /\ pc[number_of_blocks - 1] = "get"
    /\ \E i \in Lanes :
          /\ SlotOf(number_of_blocks - 1, i) \in Slots
          /\ FlagAt(SlotOf(number_of_blocks - 1, i)) = PREFIX_EMPTY

\* Block k's slot is in the window block b is looking at.
InWindow(b, k) == pc[b] = "get" /\ \E i \in Lanes : SlotOf(b, i) = padding + k

\* C8: nothing but a step of block k takes slot k out of Empty, and while it
\* is Empty a later block b with k in its window stays in get()'s loop, in
\* the same round, and does not publish Complete: when k is never scheduled,
\* b polls forever.
C8_SpinsWhileEmpty ==
    [][\A b \in Blocks \ {0} : \A k \in Blocks :
          (k < b /\ InWindow(b, k) /\ FlagAt(padding + k) = PREFIX_EMPTY) =>
              /\ pc'[k] = pc[k] => FlagAt(padding + k)' = PREFIX_EMPTY
              /\ FlagAt(padding + k)' = PREFIX_EMPTY =>
                    /\ pc'[b] = "get"
                    /\ rounds'[b] = rounds[b]
                    /\ ~GetReturned(b)'
                    /\ FlagAt(padding + b)' # PREFIX_COMPLETE]_vars

\* Block k has not been scheduled while every earlier block has returned,
\* and a later block is in get() with k in its window.
C8_Witness ==
    /\ phase = "scan"
    /\ \E k \in Blocks \ {0} : \E b \in Blocks :
          /\ k < b
          /\ pc[k] = "set_partial"
          /\ FlagAt(padding + k) = PREFIX_EMPTY
          /\ \A c \in Blocks : c < k => Returned(c)
          /\ InWindow(b, k)
          /\ \E i \in Lanes : SlotOf(b, i) = padding + k /\ lane[b][i].pc = "load"

\* Everything slot s holds, in either layout.
SlotCells(s) ==
    <<prefixes[s], prefixes_flags[s], prefixes_partial_values[s],
      prefixes_complete_values[s]>>

\* How far operator() has come: the positions in program order.
PcRank(p) ==
    CASE p = "set_partial" -> 0
      [] p = "set_partial_flag" -> 1
      [] p = "get" -> 2
      [] p = "set_complete" -> 3
      [] p = "set_complete_flag" -> 4
      [] p = "done" -> 5

\* The positions at which lane 0 stores: inside set_partial, inside set_complete.
StorePcs == {"set_partial", "set_partial_flag", "set_complete", "set_complete_flag"}

\* C11: during the scan a step that changes real slot padding+b is a store
\* of block b's own set_partial or set_complete and changes no other slot;
\* operator() never goes back, so block b > 0 makes each of the two calls
\* once, set_partial first; no step changes a padding slot.
C11_OwnSlotOnly ==
    [][phase = "scan" =>
          /\ \A s \in 0 .. (padding - 1) : SlotCells(s)' = SlotCells(s)
          /\ \A b \in Blocks :
                /\ PcRank(pc'[b]) >= PcRank(pc[b])
                /\ SlotCells(padding + b)' # SlotCells(padding + b) =>
                      /\ pc[b] \in StorePcs
                      /\ PcRank(pc'[b]) > PcRank(pc[b])
                      /\ \A c \in Blocks \ {b} : pc'[c] = pc[c]
                      /\ \A t \in Slots \ {padding + b} :
                            SlotCells(t)' = SlotCells(t)]_vars

\* Block b > 0 has made both of its stores and returned while a later block
\* has not stored yet: that block's slot is as the initialization left it.
C11_Witness ==
    /\ phase = "scan"
    /\ \E b \in Blocks \ {0} : \E c \in Blocks :
          /\ c > b
          /\ Returned(b)
          /\ FlagAt(padding + b) = PREFIX_COMPLETE
          /\ pc[c] = "set_partial"
          /\ SlotCells(padding + c) =
                <<[flag |-> PREFIX_EMPTY, value |-> junk],
                  PREFIX_EMPTY, junk, junk>>

\* C12: in both layouts a lane is past get()'s loop only with a flag it
\* loaded that is not Empty: what get() returns carries Invalid, Partial or
\* Complete, and the split layout loads no value for a flag loaded as Empty.
C12_NeverReturnsEmpty ==
    \A b \in Blocks \ {0} : \A i \in Lanes :
        /\ lane[b][i].pc \in {"value", "ready"} =>
              lane[b][i].flag \in {PREFIX_INVALID, PREFIX_PARTIAL, PREFIX_COMPLETE}
        /\ GetReturned(b) => lane[b][i].flag # PREFIX_EMPTY
        /\ lane[b][i].flag = PREFIX_EMPTY =>
              /\ lane[b][i].pc = "load"
              /\ lane[b][i].value = junk

\* A combined get() has returned Partial in lane 0 and Complete in lane 1
\* to a block whose window was not published when it started to poll.
C12_Witness ==
    /\ layout = "combined"
    /\ \E b \in Blocks \ {0} :
          /\ b >= WarpSize
          /\ GetReturned(b)
          /\ lane[b][0].flag = PREFIX_PARTIAL
          /\ lane[b][1].flag = PREFIX_COMPLETE

\* The slots whose flag a step changes.
FlagsChanged == {s \in Slots : FlagAt(s)' # FlagAt(s)}

\* One call of initialize_prefix during the initialization pass.
InitCall == phase = "init" /\ phase' = "init"

\* The flags after initialize_prefix(id) if its two cases excluded each other.
FlagsIfExclusive(id) ==
    [s \in Slots |->
        IF id < number_of_blocks
        THEN (IF s = padding + id THEN PREFIX_EMPTY ELSE FlagAt(s))
        ELSE IF id < padding /\ s = id THEN PREFIX_INVALID ELSE FlagAt(s)]

\* C13 as stated: a call sets the Empty flag if id < number_of_blocks and
\* otherwise, only when id >= number_of_blocks, the Invalid flag if
\* id < padding, so that it changes the flag of at most one slot.
C13_ExclusiveCases ==
    [][InitCall =>
          /\ \E id \in InitIds : [s \in Slots |-> FlagAt(s)'] = FlagsIfExclusive(id)
          /\ Cardinality(FlagsChanged) <= 1]_vars

\* C13, amended: initialize_prefix(id) makes two independent tests: it sets
\* slot padding+id to Empty if id < number_of_blocks, and it sets slot id to
\* Invalid if id < padding; for id < min(padding, number_of_blocks) it does
\* both, so one call changes the flags of at most two slots, and of no
\* slot other than id and padding+id.
C13_IndependentCases ==
    [][InitCall =>
          \E id \in InitIds :
              /\ inited' = inited \cup {id}
              /\ \A s \in Slots :
                    FlagAt(s)' = IF s = id /\ id < padding THEN PREFIX_INVALID
                                 ELSE IF s = padding + id /\ id < number_of_blocks
                                      THEN PREFIX_EMPTY
                                      ELSE FlagAt(s)
              /\ FlagsChanged \subseteq {id, padding + id}
              /\ Cardinality(FlagsChanged) <= 2]_vars

\* The single call initialize_prefix(0) on a buffer of garbage flags has set
\* slot 0 to Invalid and slot padding to Empty: two slots changed.
C13_Witness ==
    /\ phase = "init"
    /\ inited = {0}
    /\ FlagAt(0) = PREFIX_INVALID
    /\ FlagAt(padding) = PREFIX_EMPTY
    /\ FlagAt(1) = PREFIX_PARTIAL

\* The flags initialize_prefix(id) would leave if it were called now.
FlagsAfterCall(id) ==
    IF layout = "combined"
    THEN [s \in Slots |-> initialize_prefix_combined(id)[s].flag]
    ELSE initialize_prefix_split(id)

\* C14: during the initialization pass, calling initialize_prefix again with
\* an id it was called with already changes no slot's flag, whichever calls
\* were made in between: the flags are as the single call left them.
C14_Idempotent ==
    phase = "init" =>
        \A id \in inited : FlagsAfterCall(id) = [s \in Slots |-> FlagAt(s)]

\* initialize_prefix was called with an id that makes both stores, with one
\* that makes the Empty store only and with the id beyond every range, on a
\* buffer of garbage flags of which some are left.
C14_Witness ==
    /\ phase = "init"
    /\ number_of_blocks > padding
    /\ inited = {0, padding, Max(padding, number_of_blocks)}
    /\ FlagAt(0) = PREFIX_INVALID
    /\ FlagAt(padding) = PREFIX_EMPTY
    /\ FlagAt(padding + padding) = PREFIX_EMPTY
    /\ FlagAt(1) = PREFIX_COMPLETE

\* C15: when block 0 invokes operator(), round 0 of its look-back polls
\* padding slots only, all of them Invalid, so no lane returns Complete;
\* the loop goes on to a further round, whose slot indices are all outside
\* [0, padding + number_of_blocks); block 0 never reaches set_complete
\* before that access.
C15_StrayLookback ==
    phase = "scan" =>
        /\ (pc[0] = "get" /\ rounds[0] = 0) =>
              \A i \in Lanes :
                  /\ SlotOf(0, i) \in 0 .. (padding - 1)
                  /\ FlagAt(SlotOf(0, i)) = PREFIX_INVALID
                  /\ lane[0][i].pc = "ready" => lane[0][i].flag = PREFIX_INVALID
        /\ rounds[0] >= 1 =>
              /\ pc[0] = "get"
              /\ \A i \in Lanes : SlotOf(0, i) \notin Slots
        /\ pc[0] \notin {"set_complete", "set_complete_flag", "done"}

\* Block 0, alone in running, has finished round 0 and made the loads of
\* the further round: they were outside the buffer.
C15_Witness ==
    /\ phase = "scan"
    /\ oob
    /\ pc[0] = "get"
    /\ rounds[0] = 1
    /\ \A i \in Lanes : SlotOf(0, i) \notin Slots
    /\ \A b \in Blocks \ {0} : pc[b] = "set_partial"

\* Block b is in get() and a padding slot of its window is Empty.
PollsEmptyPadding(b) ==
    /\ phase = "scan"
    /\ pc[b] = "get"
    /\ \E i \in Lanes :
          /\ SlotOf(b, i) \in 0 .. (padding - 1)
          /\ FlagAt(SlotOf(b, i)) = PREFIX_EMPTY

\* C16: when the initialization left a padding slot Empty, a block with
\* that slot in its window stays in get() from then on, under every
\* scheduling, the fair ones included: get() does not return to the warp,
\* the round is never reduced, the block never publishes Complete nor returns.
C16_SpinsOnUninitialized ==
    [][\A b \in Blocks \ {0} :
          PollsEmptyPadding(b) =>
              /\ PollsEmptyPadding(b)'
              /\ ~GetReturned(b)
              /\ ~GetReturned(b)'
              /\ rounds'[b] = rounds[b]
              /\ prefix'[b] = prefix[b]
              /\ FlagAt(padding + b)' # PREFIX_COMPLETE]_vars

\* Split layout, initialization skipped for the last padding slot, which
\* is Empty: block 0 has returned, lane 0 of block 1 has got its Complete,
\* lane 1 still polls the padding slot.
C16_Witness ==
    /\ layout = "split"
    /\ number_of_blocks >= 2
    /\ Returned(0)
    /\ PollsEmptyPadding(1)
    /\ lane[1][0].flag = PREFIX_COMPLETE
    /\ lane[1][1].pc = "load"
    /\ FlagAt(SlotOf(1, 1)) = PREFIX_EMPTY
    /\ (padding - 1) \notin inited

\* The flag block k's slot shows at each position of its owner, the same
\* in both layouts: Empty until set_partial has stored its flag, Partial
\* until set_complete has stored its flag, Complete from then on.
FlagAtProgress(k) ==
    IF pc[k] = "done" THEN PREFIX_COMPLETE
    ELSE IF k # 0 /\ pc[k] \in {"get", "set_complete", "set_complete_flag"}
         THEN PREFIX_PARTIAL
         ELSE PREFIX_EMPTY

\* The value that goes with flag f of block k's slot, the same in both layouts.
ValueWithFlag(k, f) == IF f = PREFIX_PARTIAL THEN reductions[k] ELSE InclusiveScan(k)

\* What a layout lets a launch observe, stated without reference to the layout.
ObservableResults ==
    phase = "scan" =>
        /\ \A k \in Blocks :
              /\ FlagAt(padding + k) = FlagAtProgress(k)
              /\ FlagAt(padding + k) = PREFIX_PARTIAL =>
                    PartialValueAt(padding + k) = reductions[k]
              /\ Returned(k) =>
                    /\ CompleteValueAt(padding + k) = InclusiveScan(k)
                    /\ k # 0 => prefix[k] = ExclusiveScan(k)
        /\ \A b \in Blocks \ {0} : \A i \in Lanes :
              LET s == SlotOf(b, i)
                  o == lane[b][i]
              IN  (pc[b] = "get" /\ s \in Slots /\ s >= padding /\ o.pc # "load") =>
                      /\ o.flag \in {PREFIX_PARTIAL, PREFIX_COMPLETE}
                      /\ o.flag <= FlagAtProgress(s - padding)
                      /\ o.pc = "ready" => o.value = ValueWithFlag(s - padding, o.flag)

\* The flag a lane leaves get()'s loop with is the one the owner's progress
\* showed at that load.
ObservedAtLoad ==
    \A b \in Blocks \ {0} : \A i \in Lanes :
        LET s == SlotOf(b, i) IN
        (pc[b] = "get" /\ s \in Slots /\ s >= padding
            /\ lane[b][i].pc = "load" /\ lane'[b][i].pc # "load") =>
                lane'[b][i].flag = FlagAtProgress(s - padding)

RegionBelow(from, count, size, limit) == from >= 0 /\ from + count * size <= limit

\* C18: for every number_of_blocks, with n = padding + number_of_blocks as
\* get_storage_size and create compute it, the buffer of get_storage_size
\* bytes holds what create lays out: the n words of the combined layout;
\* the n flags at 0, the n partial values at align_size(n * sizeof(flag))
\* and the n complete values at that offset plus align_size(n * sizeof(T))
\* of the split layout, each region ending where the next begins or before,
\* the last one inside the buffer. The size is the one function of
\* number_of_blocks and padding the layout's sizeofs give.
C18_StorageHoldsLayout ==
    (host.call = "scan_state" /\ host.stage = "created") =>
        LET n == UAdd(padding, host.number_of_blocks)
            size == host.storage_size
            z == host.sizeof_T
            a == host.alignment
        IN  IF host.is_arithmetic
            THEN /\ host.at.prefixes = 0
                 /\ RegionBelow(0, n, sizeof_prefix_underlying_type(z), size)
                 /\ size = n * sizeof_prefix_underlying_type(z)
            ELSE /\ host.at.prefixes_flags = 0
                 /\ host.at.prefixes_partial_values = align_size(n * sizeof_flag_type, a)
                 /\ host.at.prefixes_complete_values =
                       host.at.prefixes_partial_values + align_size(n * z, a)
                 /\ RegionBelow(0, n, sizeof_flag_type, host.at.prefixes_partial_values)
                 /\ RegionBelow(host.at.prefixes_partial_values, n, z,
                                host.at.prefixes_complete_values)
                 /\ RegionBelow(host.at.prefixes_complete_values, n, z, size)
                 /\ size = align_size(n * sizeof_flag_type, a) + 2 * align_size(n * z, a)

\* The split arrays of a launch of the largest size are bound: the
\* alignment leaves a gap after the flags and after the partial values.
C18_Witness ==
    /\ host.call = "scan_state"
    /\ host.stage = "created"
    /\ ~host.is_arithmetic
    /\ host.number_of_blocks = MaxStorageBlocks
    /\ host.at.prefixes_partial_values > padding + host.number_of_blocks
    /\ host.at.prefixes_complete_values >
          host.at.prefixes_partial_values + (padding + host.number_of_blocks) * host.sizeof_T
    /\ host.storage_size >
          host.at.prefixes_complete_values + (padding + host.number_of_blocks) * host.sizeof_T

\* segmented_reduce has returned.
SegmentedReduceReturned == host.call = "segmented_reduce" /\ host.stage = "returned"

\* C19: segmented_reduce called with temporary_storage == nullptr writes 4
\* to storage_size and returns without launching, output as it was; called
\* with a buffer it launches `segments` blocks, one per segment, and leaves
\* storage_size as it was.
C19_TwoPhaseStorage ==
    SegmentedReduceReturned =>
        IF host.temporary_storage = "nullptr"
        THEN /\ host.storage_size = 4
             /\ host.launched = 0
             /\ host.written = {}
        ELSE /\ host.launched = host.segments
             /\ host.written = 0 .. (host.segments - 1)
             /\ host.storage_size = host.storage_size_before

\* What holds of the call with a buffer whatever `segments` is: the blocks
\* launched are those of the grid segments * block_size as unsigned int
\* arithmetic gives it, which are `segments` blocks as long as the product
\* does not wrap.
TwoPhaseStorageUpToWrap ==
    SegmentedReduceReturned =>
        IF host.temporary_storage = "nullptr"
        THEN /\ host.storage_size = 4
             /\ host.launched = 0
             /\ host.written = {}
        ELSE /\ host.launched = segmented_reduce_tiles(host.segments)
             /\ host.segments * segmented_reduce_block_size < UIntRange =>
                   /\ host.launched = host.segments
                   /\ host.written = 0 .. (host.segments - 1)
             /\ host.storage_size = host.storage_size_before

\* The launched blocks whose items include index i.
BlocksOf(i) ==
    {k \in 0 .. (host.launched - 1) :
        /\ k * transform_items_per_block <= i
        /\ i < (k + 1) * transform_items_per_block}

\* C20: transform launches ceil(size / (256 * 4)) blocks, none for size = 0
\* and none without an index below size; every index of [0, size) belongs
\* to exactly one launched block, and when the kernel is over
\* output[i] = transform_op(input[i]) for every such index: a + 5 applied to
\* the counting input first, first + 1, ...
C20_TransformCoversRange ==
    (host.call = "transform" /\ host.stage = "returned") =>
        /\ host.launched * (256 * 4) >= host.size
        /\ (host.launched - 1) * (256 * 4) < host.size
        /\ host.size = 0 => host.launched = 0
        /\ DOMAIN host.output = 0 .. (host.size - 1)
        /\ \A i \in 0 .. (host.size - 1) :
              /\ Cardinality(BlocksOf(i)) = 1
              /\ host.output[i] = host.first + i + 5

\* One item more than the largest number of full blocks: one more block is
\* launched and writes the last element.
C20_Witness ==
    /\ host.call = "transform"
    /\ host.stage = "returned"
    /\ host.first = 200
    /\ host.size = MaxTransformBlocks * transform_items_per_block + 1
    /\ host.launched = MaxTransformBlocks + 1
    /\ host.output[host.size - 1] = 200 + host.size - 1 + 5

\* ---------------------------------------------------------------- C21
\* The flag the slot shows in memory is backed by the value array it
\* selects, and so is a flag whose store has been issued: the fence before
\* it has made the value visible.
FlagBacked ==
    /\ order.flag = PREFIX_PARTIAL => order.partial_value = OwnerReduction
    /\ order.flag = PREFIX_COMPLETE => order.complete_value = OwnerTotal
    /\ "store_flag_partial" \in order.pending => order.partial_value = OwnerReduction
    /\ "store_flag_complete" \in order.pending => order.complete_value = OwnerTotal

\* A flag reaches memory after the value it announces: the step that makes
\* the flag visible finds the value in place and leaves it alone.
ValueBeforeFlag ==
    order'.flag # order.flag =>
        /\ order'.partial_value = order.partial_value
        /\ order'.complete_value = order.complete_value
        /\ order'.flag = PREFIX_PARTIAL => order.partial_value = OwnerReduction
        /\ order'.flag = PREFIX_COMPLETE => order.complete_value = OwnerTotal

\* C21: in the split layout set_partial and set_complete each store the
\* value, fence, and then store the flag, in this order; so in every state
\* a slot whose flag is Partial holds its owner's local reduction in the
\* partial array, and a slot whose flag is Complete holds its owner's
\* inclusive total in the complete array.
C21_ValueFenceFlag ==
    /\ []FlagBacked
    /\ [][ValueBeforeFlag]_vars

\* set_complete has been carried out to its last store, and the slot shows
\* Complete over both values.
C21_Witness ==
    /\ order.run = "split_slot"
    /\ order.issued = Len(owner_ops)
    /\ order.pending = {}
    /\ order.flag = PREFIX_COMPLETE
    /\ order.partial_value = OwnerReduction
    /\ order.complete_value = OwnerTotal

\* ---------------------------------------------------------------- C22
\* C22: in the split layout every get() issues a memory fence after the
\* flag load that ended its polling loop and before the load of the value
\* array: the lane about to load the value has a fence as its last operation.
C22_FenceBeforeValue ==
    (/\ order.run = "split_slot"
     /\ order.reader.at <= Len(get_ops)
     /\ get_ops[order.reader.at] = "load_value")
        => order.reader.last = "fence"

\* What the missing fence lets through: get() has returned a flag together
\* with a value that is not the one the flag announces.
StaleValueReturned ==
    /\ order.run = "split_slot"
    /\ order.reader.at > Len(get_ops)
    /\ \/ order.reader.flag = PREFIX_PARTIAL /\ order.reader.value # OwnerReduction
       \/ order.reader.flag = PREFIX_COMPLETE /\ order.reader.value # OwnerTotal


\* ---------------------------------------------------------------- C23
\* The nearest lane that observed Complete, the farthest lane when none did.
NearestComplete(obs) ==
    IF \E i \in Lanes : obs[i].flag = PREFIX_COMPLETE
    THEN CHOOSE c \in Lanes :
            /\ obs[c].flag = PREFIX_COMPLETE
            /\ \A i \in Lanes : obs[i].flag = PREFIX_COMPLETE => c <= i
    ELSE WarpSize - 1

\* The values of lanes c .. 0 combined in this order: lane c holds the
\* lowest block id, lane 0 the highest.
RECURSIVE AscendingBlocks(_, _)
AscendingBlocks(obs, c) ==
    IF c = 0 THEN obs[0].value
    ELSE scan_op_(obs[c].value, AscendingBlocks(obs, c - 1))

\* C23: within one round, whatever flags and values the lanes observed,
\* lane 0's result of reduce_partial_prefixes is the combination, in
\* ascending block order, of the values of lanes 0 .. c, c being the nearest
\* lane whose flag is Complete (farther lanes excluded), and of all lanes
\* when no lane is Complete.
C23_RoundResult ==
    [][\A b \in Blocks :
          (rounds[b] = 0 /\ rounds'[b] = 1) =>
              prefix'[b] = AscendingBlocks(lane[b], NearestComplete(lane[b]))]_vars

\* A round reduced under concatenation whose nearest lane observed Complete
\* and whose farthest lane observed Partial: the result is the nearest
\* lane's value alone.
C23_Witness ==
    /\ op = "concat"
    /\ number_of_blocks = 2
    /\ rounds[1] = 1
    /\ pc[1] = "set_complete"
    /\ lane[1][0].flag = PREFIX_COMPLETE
    /\ lane[1][WarpSize - 1].flag = PREFIX_PARTIAL
    /\ lane[1][WarpSize - 1].value # lane[1][0].value
    /\ prefix[1] = lane[1][0].value

\* ---------------------------------------------------------------- C24
\* Block b finishes a round of get_prefix in this step.
RoundEnds(b) == rounds'[b] = rounds[b] + 1

\* Some lane of block b holds Complete from the round it has read.
SawComplete(b) == \E i \in Lanes : lane[b][i].flag = PREFIX_COMPLETE

\* Block b has left the loop of get_prefix.
PastLookback(b) == pc[b] \in {"set_complete", "set_complete_flag", "done"}

\* C24: get_prefix starts a further round exactly when no lane of the round
\* just finished observed Complete; it returns after the first round in
\* which some lane did, and from then on reads no predecessor: its window
\* stays where that round left it.
C24_StopsAtFirstComplete ==
    /\ [](\A b \in Blocks \ {0} :
            PastLookback(b) => SawComplete(b) /\ rounds[b] >= 1)
    /\ [][\A b \in Blocks \ {0} :
            /\ RoundEnds(b) =>
                  IF SawComplete(b)
                  THEN /\ pc'[b] = "set_complete"
                       /\ previous_block_id'[b] = previous_block_id[b]
                  ELSE /\ pc'[b] = "get"
                       /\ \A i \in Lanes :
                             /\ lane'[b][i].pc = "load"
                             /\ previous_block_id'[b][i] =
                                   USub(previous_block_id[b][i], WarpSize)
            /\ PastLookback(b) =>
                  /\ PastLookback(b)'
                  /\ rounds'[b] = rounds[b]
                  /\ lane'[b] = lane[b]
                  /\ previous_block_id'[b] = previous_block_id[b]]_vars

\* A block went through a round without a Complete, found one in its
\* second round, in a lane that is not the farthest, and left the loop there.
C24_Witness ==
    \E b \in Blocks \ {0} :
        /\ PastLookback(b)
        /\ rounds[b] = 2
        /\ lane[b][0].flag = PREFIX_COMPLETE
        /\ lane[b][WarpSize - 1].flag # PREFIX_COMPLETE

\* ---------------------------------------------------------------- C25
\* The predecessor lane i of block b looks at in the round it is in, as a
\* signed number: negative for the lanes that reach below block 0.
SignedPredecessor(b, i) == b - 1 - i - rounds[b] * WarpSize

\* C25: in round r lane i of block b reads slot padding + b - 1 - i - r*W:
\* when b - 1 - i - r*W is negative previous_block_id holds it wrapped, and
\* adding padding wraps back to exactly that index; for every b >= 1 and
\* every round executed the index lies in [1, padding + number_of_blocks)
\* and is a padding slot or the slot of a block strictly below b.
C25_SlotIndex ==
    \A b \in Blocks \ {0} :
        (phase = "scan" /\ pc[b] = "get") =>
            \A i \in Lanes :
                LET d == SignedPredecessor(b, i) IN
                /\ previous_block_id[b][i] = IF d < 0 THEN UIntRange + d ELSE d
                /\ SlotOf(b, i) = padding + d
                /\ SlotOf(b, i) >= 1
                /\ SlotOf(b, i) < padding + number_of_blocks
                /\ SlotOf(b, i) < padding + b

\* A block in its second round whose nearest lane looks at block 0: the
\* farthest lane's previous_block_id has wrapped, and the slot it got its
\* Invalid flag from is slot 1.
C25_Witness ==
    \E b \in Blocks \ {0} :
        /\ phase = "scan"
        /\ pc[b] = "get"
        /\ rounds[b] = 1
        /\ previous_block_id[b][0] = 0
        /\ previous_block_id[b][WarpSize - 1] = UIntRange - (WarpSize - 1)
        /\ SlotOf(b, WarpSize - 1) = 1
        /\ lane[b][WarpSize - 1].pc = "ready"
        /\ lane[b][WarpSize - 1].flag = PREFIX_INVALID

\* ---------------------------------------------------------------- C26
\* C26: in operator() of block b the write of set_partial(b) precedes the
\* block's first get(), and set_complete(b) happens only after the look-back
\* loop has exited: whenever block b is polling inside get(), slot b is
\* Partial already, not Empty and not yet Complete.
C26_PartialBeforePolling ==
    /\ [](\A b \in Blocks \ {0} :
            /\ (phase = "scan" /\ pc[b] = "get") => FlagAt(padding + b) = PREFIX_PARTIAL
            /\ (phase = "scan" /\ FlagAt(padding + b) = PREFIX_COMPLETE) => pc[b] = "done")
    /\ [][\A b \in Blocks \ {0} :
            /\ (pc[b] # "get" /\ pc'[b] = "get") =>
                  /\ pc[b] \in {"set_partial", "set_partial_flag"}
                  /\ FlagAt(padding + b)' = PREFIX_PARTIAL
            /\ FlagAt(padding + b)' # FlagAt(padding + b) /\ FlagAt(padding + b)' = PREFIX_COMPLETE
                  => PastLookback(b)]_vars

\* A block polls a predecessor that has published nothing yet (its flag
\* is Empty) while its own slot shows Partial to its successors.
C26_Witness ==
    \E b \in Blocks \ {0} :
        /\ phase = "scan"
        /\ pc[b] = "get"
        /\ FlagAt(padding + b) = PREFIX_PARTIAL
        /\ FlagAt(padding + b - 1) = PREFIX_EMPTY
        /\ lane[b][0].pc = "load"
        /\ PartialValueAt(padding + b) = reductions[b]

\* ---------------------------------------------------------------- C27
\* The scan state being sized or bound is of the combined layout.
CombinedCall == host.call = "scan_state" /\ host.is_arithmetic

\* The pair {flag, value} of a payload of sizeof_T bytes is exactly the word
\* the combined layout loads and stores.
PairIsWord(sizeof_T) ==
    /\ sizeof_flag_type_(sizeof_T) + sizeof_T = sizeof_prefix_underlying_type(sizeof_T)
    /\ sizeof_prefix_underlying_type(sizeof_T) = 2 * sizeof_flag_type_(sizeof_T)

\* C27: for every payload type that selects the combined layout (every
\* arithmetic T, sizeof(T) being 1, 2, 4, 8 or 16), sizeof(flag) + sizeof(T)
\* = sizeof(prefix_underlying_type) = 2 * sizeof(flag_type): the pair
\* occupies exactly the single word that is loaded and stored.
C27_PairFillsWord == CombinedCall => PairIsWord(host.sizeof_T)

\* The payloads of up to 8 bytes do fill the word.
PairFillsWordUpTo8 == (CombinedCall /\ host.sizeof_T <= 8) => PairIsWord(host.sizeof_T)

\* A buffer was sized and bound for a 16-byte arithmetic payload: its slots
\* are 2 bytes each, less than the payload alone.
WordShorterThanPayload ==
    /\ CombinedCall
    /\ host.stage = "created"
    /\ host.number_of_blocks = 1
    /\ host.sizeof_T = 16
    /\ host.storage_size = 2 * (padding + 1)

\* ---------------------------------------------------------------- C28
\* ceil(b / WarpSize)
RoundsBound(b) == (b + WarpSize - 1) \div WarpSize

\* C28: for every block b >= 1, get_prefix makes at most ceil(b/W) rounds
\* (calls of reduce_partial_prefixes): the round whose window contains
\* block 0 always observes Complete.
C28_RoundsBounded ==
    \A b \in Blocks \ {0} :
        /\ rounds[b] <= RoundsBound(b)
        /\ (phase = "scan" /\ pc[b] = "get") =>
              /\ rounds[b] < RoundsBound(b)
              /\ \A i \in Lanes :
                    (previous_block_id[b][i] = 0 /\ lane[b][i].pc # "load")
                        => lane[b][i].flag = PREFIX_COMPLETE

\* The last block of the additive example has made all the rounds the bound
\* allows, more than one, and left the loop on the Complete of block 0.
C28_Witness ==
    \E b \in Blocks \ {0} :
        /\ RoundsBound(b) > 1
        /\ rounds[b] = RoundsBound(b)
        /\ PastLookback(b)
        /\ \E i \in Lanes :
              previous_block_id[b][i] = 0 /\ lane[b][i].flag = PREFIX_COMPLETE

\* ---------------------------------------------------------------- C29
\* initialize_prefix has been called with every id below max(padding, N).
PassCovered == (0 .. (Max(padding, number_of_blocks) - 1)) \subseteq inited

\* The ids neither test of initialize_prefix lets through.
IdsBeyond == {id \in InitIds : id >= number_of_blocks /\ id >= padding}

\* C29: once initialize_prefix(id, N) has been invoked for every id in
\* [0, max(padding, N)), in whatever order, every slot in [0, padding) is
\* Invalid and every slot in [padding, padding + N) is Empty; a call with
\* id >= N and id >= padding writes nothing.
C29_InitializationPass ==
    /\ []((phase = "init" /\ PassCovered) =>
            \A s \in Slots :
                FlagAt(s) = IF s < padding THEN PREFIX_INVALID ELSE PREFIX_EMPTY)
    /\ [](phase = "init" =>
            \A id \in IdsBeyond :
                /\ initialize_prefix_combined(id) = prefixes
                /\ initialize_prefix_split(id) = prefixes_flags)
    /\ [][(InitCall /\ inited' # inited /\ inited' \ inited \subseteq IdsBeyond)
              => UNCHANGED memory]_vars

\* The pass over a launch of more blocks than padding slots is over, the id
\* beyond every range included, on a buffer that held garbage flags.
C29_Witness ==
    /\ phase = "init"
    /\ number_of_blocks > padding
    /\ inited = InitIds
    /\ IdsBeyond # {}
    /\ \A s \in 0 .. (padding - 1) : FlagAt(s) = PREFIX_INVALID
    /\ \A s \in padding .. (padding + number_of_blocks - 1) : FlagAt(s) = PREFIX_EMPTY

====
